---- MODULE Spec2Model ----
(***************************************************************************)
(* Model of the font style feature: the option normalizer                  *)
(* (fontstyle/utils: normalizeOptions and its helpers) and the conversion  *)
(* set-up of FontStyleEditing.init (strict two-way conversion, the         *)
(* any-value converters and the legacy <font style=".."> converter).       *)
(*                                                                         *)
(* JavaScript values are tagged records [t, v]; strings are sequences of   *)
(* one-character strings; objects live in a heap (a sequence of records,   *)
(* an object reference is an index), so that aliasing and in-place         *)
(* mutation are visible.                                                   *)
(***************************************************************************)
EXTENDS Integers, Sequences, FiniteSets, TLC

\* ------------------------------------------------------------------------
\* Bounds of the model
\* ------------------------------------------------------------------------
MaxOptions == 2
MaxCalls == 2
MaxMutations == 1

\* ------------------------------------------------------------------------
\* JavaScript values
\* ------------------------------------------------------------------------
Undef == [t |-> "undefined", v |-> 0]
Str(s) == [t |-> "string", v |-> s]
Ref(i) == [t |-> "object", v |-> i]
Fun(n) == [t |-> "function", v |-> n]

\* A number is m / 10^s, kept normalised (no trailing zero in the fraction),
\* or NaN, or +/-Infinity (m = 1 or -1).
NaN == [t |-> "number", v |-> [k |-> "nan", m |-> 0, s |-> 0]]
Infinity(sign) == [t |-> "number", v |-> [k |-> "inf", m |-> sign, s |-> 0]]

RECURSIVE NormDec(_, _)
NormDec(m, s) ==
    IF s > 0 /\ m % 10 = 0 THEN NormDec(m \div 10, s - 1)
    ELSE [k |-> "fin", m |-> m, s |-> s]

Dec(m, s) == [t |-> "number", v |-> NormDec(m, s)]
Num(n) == Dec(n, 0)

IsNaN(x) == x.t = "number" /\ x.v.k = "nan"

Digits == {"0", "1", "2", "3", "4", "5", "6", "7", "8", "9"}
DigitVal == [c \in Digits |->
    CASE c = "0" -> 0 [] c = "1" -> 1 [] c = "2" -> 2 [] c = "3" -> 3
      [] c = "4" -> 4 [] c = "5" -> 5 [] c = "6" -> 6 [] c = "7" -> 7
      [] c = "8" -> 8 [] c = "9" -> 9]
DigitChar == [d \in 0..9 |-> CHOOSE c \in Digits : DigitVal[c] = d]
WhiteSpace == {" "}

RECURSIVE Pow10(_)
Pow10(n) == IF n = 0 THEN 1 ELSE 10 * Pow10(n - 1)

RECURSIVE NatToStr(_)
NatToStr(n) == IF n < 10 THEN <<DigitChar[n]>>
               ELSE NatToStr(n \div 10) \o <<DigitChar[n % 10]>>

RECURSIVE PadFrac(_, _)
PadFrac(ds, s) == IF Len(ds) < s THEN PadFrac(<<"0">> \o ds, s) ELSE ds

StartsWith(s, p) == Len(s) >= Len(p) /\ SubSeq(s, 1, Len(p)) = p
EndsWith(s, p) == Len(s) >= Len(p) /\ SubSeq(s, Len(s) - Len(p) + 1, Len(s)) = p
Drop(s, n) == SubSeq(s, n + 1, Len(s))

RECURSIVE TrimLeft(_)
TrimLeft(s) == IF s # <<>> /\ Head(s) \in WhiteSpace THEN TrimLeft(Tail(s)) ELSE s

RECURSIVE TakeDigits(_)
TakeDigits(s) == IF s # <<>> /\ Head(s) \in Digits
                 THEN <<Head(s)>> \o TakeDigits(Tail(s)) ELSE <<>>

RECURSIVE DigitsToNat(_)
DigitsToNat(ds) == IF ds = <<>> THEN 0
                   ELSE 10 * DigitsToNat(SubSeq(ds, 1, Len(ds) - 1)) + DigitVal[ds[Len(ds)]]

STR_Infinity == <<"I", "n", "f", "i", "n", "i", "t", "y">>
STR_NaN == <<"N", "a", "N">>
STR_undefined == <<"u", "n", "d", "e", "f", "i", "n", "e", "d">>
STR_objectObject == <<"[", "o", "b", "j", "e", "c", "t", " ", "O", "b", "j", "e", "c", "t", "]">>
STR_px == <<"p", "x">>
STR_span == <<"s", "p", "a", "n">>
STR_font == <<"f", "o", "n", "t">>
STR_default == <<"d", "e", "f", "a", "u", "l", "t">>
STR_Default == <<"D", "e", "f", "a", "u", "l", "t">>
STR_tiny == <<"t", "i", "n", "y">>
STR_small == <<"s", "m", "a", "l", "l">>
STR_big == <<"b", "i", "g">>
STR_huge == <<"h", "u", "g", "e">>
STR_Tiny == <<"T", "i", "n", "y">>
STR_Small == <<"S", "m", "a", "l", "l">>
STR_Big == <<"B", "i", "g">>
STR_Huge == <<"H", "u", "g", "e">>
STR_textPrefix == <<"t", "e", "x", "t", "-">>
STR_toString == <<"t", "o", "S", "t", "r", "i", "n", "g">>
STR_constructor == <<"c", "o", "n", "s", "t", "r", "u", "c", "t", "o", "r">>
STR_fontStyleColon == <<"f", "o", "n", "t", "-", "s", "t", "y", "l", "e", ":">>

\* String( number ) for the magnitudes of the model (no exponent notation).
NumberToString(n) ==
    CASE n.k = "nan" -> STR_NaN
      [] n.k = "inf" -> (IF n.m < 0 THEN <<"-">> ELSE <<>>) \o STR_Infinity
      [] OTHER ->
            LET a == IF n.m < 0 THEN -n.m ELSE n.m
                p == Pow10(n.s)
            IN  (IF n.m < 0 THEN <<"-">> ELSE <<>>)
                \o NatToStr(a \div p)
                \o (IF n.s > 0 THEN <<".">> \o PadFrac(NatToStr(a % p), n.s) ELSE <<>>)

\* String( value ), also used for template literals and property keys.
String(x) ==
    CASE x.t = "string" -> x.v
      [] x.t = "number" -> NumberToString(x.v)
      [] x.t = "undefined" -> STR_undefined
      [] x.t = "function" -> x.v
      [] OTHER -> STR_objectObject

\* ToBoolean( value ).
Truthy(x) ==
    CASE x.t = "undefined" -> FALSE
      [] x.t = "string" -> x.v # <<>>
      [] x.t = "number" -> x.v.k = "inf" \/ (x.v.k = "fin" /\ x.v.m # 0)
      [] OTHER -> TRUE

\* The text after an optional sign, and the sign.
Unsigned(t) == IF t # <<>> /\ Head(t) \in {"+", "-"} THEN Tail(t) ELSE t
SignOf(t) == IF t # <<>> /\ Head(t) = "-" THEN -1 ELSE 1

\* digits [ . digits ] or . digits at the start of u, of which ip are the
\* leading digits; exponents are outside the alphabet of the model.
DecimalPrefix(sgn, u, ip) ==
    LET r == Drop(u, Len(ip))
        fp == IF r # <<>> /\ Head(r) = "." THEN TakeDigits(Tail(r)) ELSE <<>>
    IN  IF Len(ip) + Len(fp) = 0 THEN NaN
        ELSE Dec(sgn * DigitsToNat(ip \o fp), Len(fp))

ParseFloatText(t) ==
    IF StartsWith(Unsigned(t), STR_Infinity) THEN Infinity(SignOf(t))
    ELSE DecimalPrefix(SignOf(t), Unsigned(t), TakeDigits(Unsigned(t)))

\* parseFloat( value ): the longest numeric prefix of String( value ) after
\* leading white space.
parseFloat(x) == ParseFloatText(TrimLeft(String(x)))

ParseIntText(t) ==
    IF TakeDigits(Unsigned(t)) = <<>> THEN NaN
    ELSE Num(SignOf(t) * DigitsToNat(TakeDigits(Unsigned(t))))

\* parseInt( value, 10 ).
parseInt(x) == ParseIntText(TrimLeft(String(x)))

\* ------------------------------------------------------------------------
\* Heap of objects: heap[i] is a function from property names to values
\* ------------------------------------------------------------------------
NoError == "none"
InvalidDefinition == "font-style-invalid-definition"
InvalidUseOfNamedPresets == "font-style-invalid-use-of-named-presets"
TypeError == "TypeError"

\* Result of a call: the heap after it, the returned value, the error thrown.
Ret(h, r) == [h |-> h, r |-> r, e |-> NoError]
Throw(h, e, d) == [h |-> h, r |-> d, e |-> e]

\* object.property (undefined when the property is missing or the value is
\* a primitive without that property)
Get(h, x, f) ==
    IF x.t = "object" /\ f \in DOMAIN h[x.v] THEN h[x.v][f] ELSE Undef

\* object.property = value
Set(h, x, f, val) ==
    [h EXCEPT ![x.v] = IF f \in DOMAIN @ THEN [@ EXCEPT ![f] = val] ELSE @ @@ (f :> val)]

\* a new object literal
New(h, obj) == Ret(Append(h, obj), Ref(Len(h) + 1))

\* The inline styles of a view definition: { 'font-style': value }.
Styles(val) == [t |-> "styles", v |-> val]

\* ------------------------------------------------------------------------
\* fontstyle/utils
\* ------------------------------------------------------------------------
DefaultPriority == 7

PresetNames == {STR_tiny, STR_small, STR_big, STR_huge}
PresetTitle(n) ==
    CASE n = STR_tiny -> STR_Tiny [] n = STR_small -> STR_Small
      [] n = STR_big -> STR_Big [] n = STR_huge -> STR_Huge

\* Properties every object literal inherits from Object.prototype.
ObjectPrototypeKeys == {STR_toString, STR_constructor}

\* The presets kept as one object per name: a preset already handed out is
\* handed out again.
namedPresets_Shared(h, key) ==
    LET existing == { i \in 1..Len(h) :
                        /\ {"title", "model", "view"} \subseteq DOMAIN h[i]
                        /\ h[i].model = Str(key)
                        /\ h[i].view.t = "object"
                        /\ "classes" \in DOMAIN h[h[i].view.v] }
    IN  IF key \in PresetNames
        THEN IF existing # {}
             THEN Ret(h, Ref(CHOOSE i \in existing : \A j \in existing : i <= j))
             ELSE LET view == New(h, [name |-> Str(STR_span),
                                      classes |-> Str(STR_textPrefix \o key),
                                      priority |-> Num(7)])
                  IN  New(view.h, [title |-> Str(PresetTitle(key)),
                                   model |-> Str(key),
                                   view |-> view.r])
        ELSE IF key \in ObjectPrototypeKeys THEN Ret(h, Fun(key))
        ELSE Ret(h, Undef)

\* namedPresets[ key ]: each getter builds a new option and a new view.
namedPresets(h, key) ==
    IF key \in PresetNames
    THEN LET view == New(h, [name |-> Str(STR_span),
                             classes |-> Str(STR_textPrefix \o key),
                             priority |-> Num(7)])
         IN  New(view.h, [title |-> Str(PresetTitle(key)),
                          model |-> Str(key),
                          view |-> view.r])
    ELSE IF key \in ObjectPrototypeKeys THEN Ret(h, Fun(key))
    ELSE Ret(h, Undef)

\* Adds the priority to the view element definition if missing.
attachPriority(h, definition) ==
    LET view == Get(h, definition, "view")
    IN  IF view.t # "object" THEN Throw(h, TypeError, definition)
        ELSE IF ~Truthy(Get(h, view, "priority"))
             THEN Ret(Set(h, view, "priority", Num(DefaultPriority)), definition)
             ELSE Ret(h, definition)

\* first || namedPresets[ definition.model ]
OrPresetOfModel(h, definition, first) ==
    IF Truthy(first.r) THEN first
    ELSE namedPresets(first.h, String(Get(h, definition, "model")))

findPreset(h, definition) ==
    OrPresetOfModel(h, definition, namedPresets(h, String(definition)))

isFullItemDefinition(h, definition) ==
    /\ definition.t = "object"
    /\ Truthy(Get(h, definition, "title"))
    /\ Truthy(Get(h, definition, "model"))
    /\ Truthy(Get(h, definition, "view"))

\* Returns TRUE for a definition that does NOT parse to a number; throws for
\* an object without a model.
isNumericalDefinition(h, definition) ==
    IF definition.t = "object"
    THEN IF ~Truthy(Get(h, definition, "model"))
         THEN Throw(h, InvalidDefinition, definition)
         ELSE Ret(h, IsNaN(parseFloat(Get(h, definition, "model"))))
    ELSE Ret(h, IsNaN(parseFloat(definition)))

\* The model built from the text of the item instead of the parsed number.
ShortDefinition_NoParse(h, definition) ==
    IF definition.t \in {"number", "string"}
    THEN New(h, [title |-> Str(String(definition)),
                 model |-> Str(String(definition) \o STR_px)])
    ELSE Ret(h, definition)

\* Extend a short (numeric value) definition; an object is kept as it is.
ShortDefinition(h, definition) ==
    IF definition.t \in {"number", "string"}
    THEN New(h, [title |-> Str(String(definition)),
                 model |-> Str(String(parseFloat(definition)) \o STR_px)])
    ELSE Ret(h, definition)

\* definition.view = view; return attachPriority( definition )
WithView(def, view) == attachPriority(Set(view.h, def.r, "view", view.r), def.r)

\* definition.view = { name: 'span', styles: { 'font-style': definition.model } }
WithStyleView(def) ==
    WithView(def, New(def.h, [name |-> Str(STR_span),
                              styles |-> Styles(Get(def.h, def.r, "model"))]))

generatePixelPreset(h, definition) == WithStyleView(ShortDefinition(h, definition))

\* The end of getOptionDefinition: discard a faulty value, else generate the
\* pixel preset.
PixelOption(option, faulty) ==
    IF faulty.e # NoError THEN faulty
    ELSE IF faulty.r THEN Ret(faulty.h, Undef)
    ELSE generatePixelPreset(faulty.h, option)

\* getOptionDefinition after the full-definition test, with the result of
\* findPreset.
PresetOrOption(option, preset) ==
    IF Truthy(preset.r) THEN attachPriority(preset.h, preset.r)
    ELSE IF option = Str(STR_default)
         THEN New(preset.h, [model |-> Undef, title |-> Str(STR_Default)])
    ELSE PixelOption(option, isNumericalDefinition(preset.h, option))

getOptionDefinition(h, option) ==
    IF isFullItemDefinition(h, option) THEN attachPriority(h, option)
    ELSE PresetOrOption(option, findPreset(h, option))

\* configuredOptions.map( item => getOptionDefinition( item ) ): the heap is
\* threaded through the calls and the first throw ends the loop.
RECURSIVE MapOptions(_, _, _)
MapRest(todo, done, d) ==
    IF d.e # NoError THEN d
    ELSE MapOptions(d.h, Tail(todo), Append(done, d.r))

MapOptions(h, todo, done) ==
    IF todo = <<>> THEN Ret(h, done)
    ELSE MapRest(todo, done, getOptionDefinition(h, Head(todo)))

\* .filter( option => !!option )
RECURSIVE FilterDefined(_)
FilterDefined(s) ==
    IF s = <<>> THEN <<>>
    ELSE (IF Truthy(Head(s)) THEN <<Head(s)>> ELSE <<>>) \o FilterDefined(Tail(s))

\* The result also carries the array produced by .map(), which is aligned
\* with configuredOptions (undefined where an item was discarded).
Filtered(mapped) ==
    IF mapped.e # NoError
    THEN [h |-> mapped.h, r |-> mapped.r, e |-> mapped.e, mapped |-> <<>>]
    ELSE [h |-> mapped.h, r |-> FilterDefined(mapped.r), e |-> NoError,
          mapped |-> mapped.r]

normalizeOptions(h, configuredOptions) ==
    Filtered(MapOptions(h, configuredOptions, <<>>))

\* ------------------------------------------------------------------------
\* fontstyle/fontstyleediting
\* ------------------------------------------------------------------------
\* Mapping of <font style=".."> styling to CSS's font-style values.
styleFontStyle ==
    << <<"x", "-", "s", "m", "a", "l", "l">>,
       <<"x", "-", "s", "m", "a", "l", "l">>,
       <<"s", "m", "a", "l", "l">>,
       <<"m", "e", "d", "i", "u", "m">>,
       <<"l", "a", "r", "g", "e">>,
       <<"x", "-", "l", "a", "r", "g", "e">>,
       <<"x", "x", "-", "l", "a", "r", "g", "e">>,
       <<"x", "x", "x", "-", "l", "a", "r", "g", "e">> >>

Min(a, b) == IF a < b THEN a ELSE b
Max(a, b) == IF a > b THEN a ELSE b

\* [+-]?[0-9]*([.][0-9]+)?  matched against the whole of s
IsCssNumber(s) ==
    LET u == IF s # <<>> /\ Head(s) \in {"+", "-"} THEN Tail(s) ELSE s
        r == Drop(u, Len(TakeDigits(u)))
    IN  \/ r = <<>>
        \/ /\ Head(r) = "."
           /\ Len(r) >= 2
           /\ TakeDigits(Tail(r)) = Tail(r)

LengthUnits ==
    { <<"p", "x">>, <<"c", "m">>, <<"m", "m">>, <<"i", "n">>, <<"p", "c">>,
      <<"p", "t">>, <<"c", "h">>, <<"e", "m">>, <<"e", "x">>, <<"r", "e", "m">>,
      <<"v", "h">>, <<"v", "w">>, <<"v", "m", "i", "n">>, <<"v", "m", "a", "x">> }

\* /^([+-]?[0-9]*([.][0-9]+)?(px|cm|mm|in|pc|pt|ch|em|ex|rem|vh|vw|vmin|vmax)|0)$/
isLength(s) ==
    \/ s = <<"0">>
    \/ \E u \in LengthUnits :
          EndsWith(s, u) /\ IsCssNumber(SubSeq(s, 1, Len(s) - Len(u)))

\* /^[+-]?[0-9]*([.][0-9]+)?%$/
isPercentage(s) ==
    EndsWith(s, <<"%">>) /\ IsCssNumber(SubSeq(s, 1, Len(s) - 1))

\* /^[+-]?\d{1,3}$/
compatStylePattern(s) ==
    LET u == IF s # <<>> /\ Head(s) \in {"+", "-"} THEN Tail(s) ELSE s
    IN  Len(u) \in 1..3 /\ TakeDigits(u) = u

\* The clamped style of a parsed level.
ClampedStyleValue(isRelative, parsed) ==
    IF IsNaN(parsed) THEN Undef
    ELSE LET style == IF isRelative THEN 3 + parsed.v.m ELSE parsed.v.m
             maxStyle == Len(styleFontStyle) - 1
             clampedStyle == Min(Max(style, 0), maxStyle)
         IN  Str(styleFontStyle[clampedStyle + 1])

\* Only a leading "+" taken as relative.
compatStyleValue_PlusOnly(value) ==
    ClampedStyleValue(value # <<>> /\ value[1] = "+", parseInt(Str(value)))

\* The value callback of the legacy converter.
compatStyleValue(value) ==
    ClampedStyleValue(value # <<>> /\ (value[1] = "-" \/ value[1] = "+"),
                      parseInt(Str(value)))

\* The options without the filter on item.model.
FilterModel_KeepAll(h, s) == s

\* .filter( item => item.model )
RECURSIVE FilterModel(_, _)
FilterModel(h, s) ==
    IF s = <<>> THEN <<>>
    ELSE (IF Truthy(Get(h, Head(s), "model")) THEN <<Head(s)>> ELSE <<>>)
         \o FilterModel(h, Tail(s))

\* buildDefinition( FONT_STYLE, options ) of ../utils: the model values in the
\* order of the options, and for each model value the view of the last
\* option that has it.
buildDefinition(h, options) ==
    LET keys == { String(Get(h, options[i], "model")) : i \in 1..Len(options) }
        lastOf(k) == CHOOSE i \in 1..Len(options) :
                        /\ String(Get(h, options[i], "model")) = k
                        /\ \A j \in (i + 1)..Len(options) :
                              String(Get(h, options[j], "model")) # k
    IN  [values |-> [i \in 1..Len(options) |-> Get(h, options[i], "model")],
         view |-> [k \in keys |-> Get(h, options[lastOf(k)], "view")]]

Converter(dir, kind, value, view) ==
    [dir |-> dir, kind |-> kind, value |-> value, view |-> view]

\* editor.conversion.attributeToElement( definition ): one downcast converter
\* for the whole definition and one upcast converter per model value, in the
\* order of definition.model.values.
attributeToElement(def, convs) ==
    convs
    \o <<Converter("downcast", "definition", Undef, Undef)>>
    \o [i \in 1..Len(def.values) |->
            Converter("upcast", "option", def.values[i], def.view[String(def.values[i])])]

\* The filter without the percentage test.
RECURSIVE NamedPresetsOf_LengthOnly(_)
NamedPresetsOf_LengthOnly(values) ==
    IF values = <<>> THEN <<>>
    ELSE (IF ~isLength(String(Head(values))) THEN <<Head(values)>> ELSE <<>>)
         \o NamedPresetsOf_LengthOnly(Tail(values))

\* .filter( value => !isLength( String( value ) ) && !isPercentage( String( value ) ) )
RECURSIVE NamedPresetsOf(_)
NamedPresetsOf(values) ==
    IF values = <<>> THEN <<>>
    ELSE (IF ~isLength(String(Head(values))) /\ ~isPercentage(String(Head(values)))
          THEN <<Head(values)>> ELSE <<>>)
         \o NamedPresetsOf(Tail(values))

_prepareAnyValueConverters(def, convs) ==
    LET presets == NamedPresetsOf(def.values)
    IN  IF Len(presets) # 0
        THEN [e |-> InvalidUseOfNamedPresets, d |-> presets, converters |-> convs]
        ELSE [e |-> NoError, d |-> Undef,
              converters |-> convs
                  \o <<Converter("downcast", "anyValue", Undef, Undef),
                       Converter("upcast", "anyValue", Undef, Undef)>>]

\* The legacy converter left out.
_prepareCompatibilityConverter_Skipped(convs) == convs

_prepareCompatibilityConverter(convs) ==
    convs \o <<Converter("upcast", "legacy", Undef, Undef)>>

\* What init() leaves behind.
Initialized(h, e, d, def, convs) ==
    [h |-> h, e |-> e, d |-> d, definition |-> def, converters |-> convs]

\* The supportAllValues branch: a throw of _prepareAnyValueConverters ends
\* init() before anything is registered.
AnyValueConversion(h, def, any) ==
    Initialized(h, any.e, any.d, def,
                IF any.e # NoError THEN <<>>
                ELSE _prepareCompatibilityConverter(any.converters))

\* The two-way conversion with the legacy converter registered after the
\* branch, in both modes.
SetUpConversion_CompatAlways(supportAllValues, h, def) ==
    IF supportAllValues
    THEN AnyValueConversion(h, def, _prepareAnyValueConverters(def, <<>>))
    ELSE Initialized(h, NoError, Undef, def,
                     _prepareCompatibilityConverter(attributeToElement(def, <<>>)))

\* Set-up the two-way conversion.
SetUpConversion(supportAllValues, h, def) ==
    IF supportAllValues
    THEN AnyValueConversion(h, def, _prepareAnyValueConverters(def, <<>>))
    ELSE Initialized(h, NoError, Undef, def, attributeToElement(def, <<>>))

\* init() once normalizeOptions() has returned or thrown.
InitWithOptions(supportAllValues, normalized) ==
    IF normalized.e # NoError
    THEN Initialized(normalized.h, normalized.e, normalized.r,
                     [values |-> <<>>, view |-> <<>>], <<>>)
    ELSE SetUpConversion(supportAllValues, normalized.h,
                         buildDefinition(normalized.h,
                                         FilterModel(normalized.h, normalized.r)))

\* FontStyleEditing.init()
init(h, cfg) ==
    InitWithOptions(cfg.supportAllValues, normalizeOptions(h, cfg.options))

\* ------------------------------------------------------------------------
\* Configurations: config.fontStyle.options written as literals
\* ------------------------------------------------------------------------
Prim(val) == [k |-> "prim", val |-> val, obj |-> <<>>, view |-> <<>>]
Obj(fields) == [k |-> "obj", val |-> Undef, obj |-> <<fields>>, view |-> <<>>]
ObjWithView(fields, view) == [k |-> "obj", val |-> Undef, obj |-> <<fields>>, view |-> <<view>>]

STR_abc == <<"a", "b", "c">>
STR_12 == <<"1", "2">>
STR_12_5 == <<"1", "2", ".", "5">>
STR_8px == <<"8", "p", "x">>
STR_13px == <<"1", "3", "p", "x">>
STR_12px == <<"1", "2", "p", "x">>
STR_150pct == <<"1", "5", "0", "%">>
STR_xsmall == <<"x", "-", "s", "m", "a", "l", "l">>
STR_a == <<"a">>
STR_b == <<"b">>
STR_c == <<"c">>
STR_A == <<"A">>
STR_B == <<"B">>
STR_X == <<"X">>
STR_cls == <<"m", "y", "-", "c", "l", "s">>

\* The default configuration of the FontStyleEditing constructor.
DefaultOptions == <<Prim(Str(STR_tiny)), Prim(Str(STR_small)), Prim(Str(STR_default)),
                    Prim(Str(STR_big)), Prim(Str(STR_huge))>>
\* The numerical configuration of the supportAllValues documentation.
NumericalOptions == <<Prim(Num(9)), Prim(Num(10)), Prim(Num(11)),
                      Prim(Str(STR_default)), Prim(Num(14))>>

PrimitiveSamples ==
    { Prim(Num(12)), Prim(Str(STR_12_5)), Prim(Str(STR_abc)), Prim(Str(STR_tiny)),
      Prim(Str(STR_small)), Prim(Str(STR_default)), Prim(Str(STR_toString)),
      Prim(Str(STR_Infinity)), Prim(Str(STR_150pct)) }
ObjectSamples ==
    { Obj([title |-> Str(STR_X)]),
      Obj([title |-> Str(STR_Small), model |-> Str(STR_8px)]),
      Obj([title |-> Str(STR_X), model |-> Str(STR_12)]),
      Obj([title |-> Str(STR_X), model |-> Str(STR_abc)]),
      Obj([title |-> Str(STR_X), model |-> Str(STR_150pct)]),
      Obj([title |-> Str(STR_X), model |-> Str(STR_tiny)]),
      ObjWithView([title |-> Str(STR_A), model |-> Str(STR_a)],
                  [name |-> Str(STR_span), classes |-> Str(STR_cls)]),
      ObjWithView([title |-> Str(STR_B), model |-> Str(STR_b)],
                  [name |-> Str(STR_span), classes |-> Str(STR_cls), priority |-> Num(0)]),
      ObjWithView([title |-> Str(STR_B), model |-> Str(STR_12px)],
                  [name |-> Str(STR_span), styles |-> Styles(Str(STR_12px)),
                   priority |-> Num(5)]) }
Samples == PrimitiveSamples \cup ObjectSamples

ConfiguredOptions ==
    {DefaultOptions, NumericalOptions}
    \cup UNION { [1..n -> Samples] : n \in 1..MaxOptions }

\* The configurations the normalizer is called with on its own.
NormalizeSamples ==
    { Prim(Num(12)), Prim(Str(STR_12_5)), Prim(Str(STR_abc)), Prim(Str(STR_tiny)),
      Prim(Str(STR_toString)), Prim(Str(STR_150pct)),
      Obj([title |-> Str(STR_X)]),
      Obj([title |-> Str(STR_X), model |-> Str(STR_12)]),
      ObjWithView([title |-> Str(STR_A), model |-> Str(STR_a)],
                  [name |-> Str(STR_span), classes |-> Str(STR_cls)]),
      ObjWithView([title |-> Str(STR_B), model |-> Str(STR_b)],
                  [name |-> Str(STR_span), classes |-> Str(STR_cls), priority |-> Num(0)]) }

NormalizedOptions ==
    {DefaultOptions}
    \cup UNION { [1..n -> NormalizeSamples] : n \in 1..MaxOptions }

\* Allocates the object literals of a configuration, in order.
RECURSIVE Build(_, _, _)
Build(h, lits, done) ==
    IF lits = <<>> THEN Ret(h, done)
    ELSE LET l == Head(lits)
         IN  IF l.k = "prim" THEN Build(h, Tail(lits), Append(done, l.val))
             ELSE IF l.view = <<>>
                  THEN LET o == New(h, l.obj[1])
                       IN  Build(o.h, Tail(lits), Append(done, o.r))
                  ELSE LET view == New(h, l.view[1])
                           o == New(view.h, l.obj[1] @@ ("view" :> view.r))
                       IN  Build(o.h, Tail(lits), Append(done, o.r))

\* ------------------------------------------------------------------------
\* State
\* ------------------------------------------------------------------------
VARIABLES
    heap,        \* the objects of the program
    config,      \* editor.config: fontStyle.options, fontStyle.supportAllValues
    status,      \* "constructed", "ready" (init returned) or "failed" (init threw)
    error,       \* the error thrown by init: [e |-> name, d |-> data]
    definition,  \* the converter definition built by init
    converters,  \* editor.conversion: the registered converters, in order
    last,        \* the last conversion: its input and its output
    calls,       \* the normalizeOptions() calls made so far and what they returned
    mutated,     \* the returned options mutated so far: <<call, index>> each
    attribute,   \* the fontStyle attribute of the selection: <<>> or <<value>>
    dropdown,    \* the 'fontStyle' dropdown: its options and its list items
    executed     \* the last execution of the 'fontStyle' command

vars == <<heap, config, status, error, definition, converters, last, calls, mutated,
          attribute, dropdown, executed>>

\* The variables of the command and of its dropdown.
commandVars == <<attribute, dropdown, executed>>

NoDropdown == [built |-> FALSE, options |-> <<>>, items |-> <<>>]
NotExecuted == [by |-> "none", item |-> 0, value |-> Undef, before |-> <<>>]

NoLast == [op |-> "none", model |-> Undef, view |-> <<>>, out |-> <<>>]

InitWith(configurations, flags) ==
    \E lits \in configurations, supportAllValues \in flags :
        LET built == Build(<<>>, lits, <<>>)
        IN  /\ heap = built.h
            /\ config = [options |-> built.r, supportAllValues |-> supportAllValues]
            /\ status = "constructed"
            /\ error = [e |-> NoError, d |-> Undef]
            /\ definition = [values |-> <<>>, view |-> <<>>]
            /\ converters = <<>>
            /\ last = NoLast
            /\ calls = <<>>
            /\ mutated = <<>>
            /\ attribute = <<>>
            /\ dropdown = NoDropdown
            /\ executed = NotExecuted

Init == InitWith(ConfiguredOptions, BOOLEAN)

\* ------------------------------------------------------------------------
\* The normalizer as a library: calls and later mutations of the results
\* ------------------------------------------------------------------------
\* normalizeOptions( editor.config.get( 'fontStyle.options' ) )
NormalizeCall ==
    /\ Len(calls) < MaxCalls
    /\ \A i \in 1..Len(calls) : calls[i].e = NoError
    /\ LET n == normalizeOptions(heap, config.options)
       IN  /\ heap' = n.h
           /\ calls' = Append(calls, [args |-> config.options, before |-> heap,
                                      after |-> n.h, mapped |-> n.mapped,
                                      ret |-> IF n.e = NoError THEN n.r ELSE <<>>,
                                      e |-> n.e])
    /\ UNCHANGED <<config, status, error, definition, converters, last, mutated, commandVars>>

MutatedTitle == Str(<<"M">>)
MutatedClasses == Str(<<"m">>)
MutatedPriority == Num(1)

\* A caller changes a property of an option it got back, or of its view:
\* option.title = .., option.view.classes = .., option.view.priority = ..
\* (j is the index of the option's source item in the call's argument)
Mutate ==
    /\ Len(mutated) < MaxMutations
    /\ \E i \in 1..Len(calls) :
        /\ calls[i].e = NoError
        /\ \E j \in 1..Len(calls[i].mapped) :
            LET option == calls[i].mapped[j]
                view == Get(heap, option, "view")
            IN  /\ Truthy(option)
                /\ \/ heap' = Set(heap, option, "title", MutatedTitle)
                   \/ /\ view.t = "object"
                      /\ heap' = Set(heap, view, "classes", MutatedClasses)
                   \/ /\ view.t = "object"
                      /\ heap' = Set(heap, view, "priority", MutatedPriority)
                /\ mutated' = Append(mutated, <<i, j>>)
    /\ UNCHANGED <<config, status, error, definition, converters, last, calls, commandVars>>

\* The normalizer called with shortcuts only: numbers, strings and partial
\* objects whose text parses to a number, to an infinity or to nothing.
STR_minusInfinity == <<"-">> \o STR_Infinity
ShortcutSamples ==
    { Prim(Num(12)), Prim(Infinity(1)), Prim(NaN),
      Prim(Str(STR_12_5)), Prim(Str(STR_150pct)), Prim(Str(STR_abc)),
      Prim(Str(STR_Infinity)), Prim(Str(STR_minusInfinity)),
      Obj([title |-> Str(STR_X), model |-> Str(STR_12)]),
      Obj([title |-> Str(STR_X), model |-> Str(STR_abc)]),
      Obj([title |-> Str(STR_X), model |-> Str(STR_Infinity)]) }

ShortcutOptions == UNION { [1..n -> ShortcutSamples] : n \in 1..MaxOptions }

InitShortcuts == InitWith(ShortcutOptions, {FALSE})

NextShortcuts == NormalizeCall

SpecShortcuts == InitShortcuts /\ [][NextShortcuts]_vars

\* The normalizer does not read supportAllValues.
InitNormalize == InitWith(NormalizedOptions, {FALSE})

NextNormalize == NormalizeCall \/ Mutate

SpecNormalize == InitNormalize /\ [][NextNormalize]_vars

\* ------------------------------------------------------------------------
\* The editor: initialization, then conversions run by the registered
\* converters
\* ------------------------------------------------------------------------
\* A view element: its name, its classes, its font-style style (if any) and
\* its style="" attribute as the legacy converter reads it (if any).
Element(name, classes, styles, attributes) ==
    [name |-> name, classes |-> classes, styles |-> styles, attributes |-> attributes]

STR_2 == <<"2">>
STR_plus2 == <<"+", "2">>
STR_minus999 == <<"-", "9", "9", "9">>
STR_1234 == <<"1", "2", "3", "4">>

\* Markup that is pasted or loaded.
ViewSamples ==
    { Element(STR_span, {STR_textPrefix \o STR_tiny}, <<>>, <<>>),
      Element(STR_span, {STR_textPrefix \o STR_small}, <<>>, <<>>),
      Element(STR_span, {STR_cls}, <<>>, <<>>),
      Element(STR_span, {}, <<>>, <<>>),
      Element(STR_span, {}, <<STR_12px>>, <<>>),
      Element(STR_span, {}, <<STR_13px>>, <<>>),
      Element(STR_span, {}, <<STR_8px>>, <<>>),
      Element(STR_span, {}, <<STR_12>>, <<>>),
      Element(STR_span, {}, <<STR_xsmall>>, <<>>),
      Element(STR_font, {}, <<>>, <<STR_2>>),
      Element(STR_font, {}, <<>>, <<STR_plus2>>),
      Element(STR_font, {}, <<>>, <<STR_minus999>>),
      Element(STR_font, {}, <<>>, <<STR_1234>>),
      Element(STR_font, {}, <<>>, <<STR_abc>>) }

\* Attribute values that are rendered besides the configured ones.
ModelSamples == { Str(STR_13px), Str(STR_xsmall), Str(<<>>) }

\* Does the view definition of an option match the element?
MatchesView(h, view, el) ==
    /\ view.t = "object"
    /\ Get(h, view, "name") = Str(el.name)
    /\ LET classes == Get(h, view, "classes")
       IN  classes.t = "undefined" \/ (classes.t = "string" /\ classes.v \in el.classes)
    /\ LET styles == Get(h, view, "styles")
       IN  styles.t = "undefined"
           \/ (styles.t = "styles" /\ el.styles # <<>> /\ styles.v = Str(el.styles[1]))

ConverterMatches(h, c, el) ==
    CASE c.kind = "option" -> MatchesView(h, c.view, el)
      [] c.kind = "anyValue" -> el.name = STR_span /\ el.styles # <<>>
      [] c.kind = "legacy" ->
            el.name = STR_font /\ el.attributes # <<>> /\ compatStylePattern(el.attributes[1])
      [] OTHER -> FALSE

\* The any-value converter reading a style the element does not have.
ConverterValue_WrongStyle(c, el) ==
    CASE c.kind = "option" -> c.value
      [] c.kind = "anyValue" -> Undef
      [] c.kind = "legacy" -> compatStyleValue(el.attributes[1])

\* The model value a matching upcast converter gives the element.
ConverterValue(c, el) ==
    CASE c.kind = "option" -> c.value
      [] c.kind = "anyValue" -> Str(el.styles[1])
      [] c.kind = "legacy" -> compatStyleValue(el.attributes[1])

\* Upcast dispatch: the first registered upcast converter that matches the
\* element consumes it and sets the attribute; <<>> when none matches.
RECURSIVE UpcastWith(_, _, _)
UpcastWith(h, convs, el) ==
    IF convs = <<>> THEN <<>>
    ELSE IF Head(convs).dir = "upcast" /\ ConverterMatches(h, Head(convs), el)
         THEN <<ConverterValue(Head(convs), el)>>
         ELSE UpcastWith(h, Tail(convs), el)

RECURSIVE TakeUntil(_, _)
TakeUntil(s, c) == IF s = <<>> \/ Head(s) = c THEN <<>>
                   ELSE <<Head(s)>> \o TakeUntil(Tail(s), c)

\* The font-style style of an element created with { style: text }.
ParseStyleAttribute(text) ==
    IF StartsWith(text, STR_fontStyleColon)
    THEN LET val == TrimLeft(TakeUntil(Drop(text, Len(STR_fontStyleColon)), ";"))
         IN  IF val = <<>> THEN <<>> ELSE <<val>>
    ELSE <<>>

\* The element a view definition of the configuration renders.
ElementOfView(h, view) ==
    LET classes == Get(h, view, "classes")
        styles == Get(h, view, "styles")
    IN  Element(Get(h, view, "name").v,
                IF classes.t = "string" THEN {classes.v} ELSE {},
                IF styles.t = "styles" THEN <<String(styles.v)>> ELSE <<>>,
                <<>>)

\* Downcast of an attribute value by the registered downcast converter;
\* <<>> when nothing is rendered.
DowncastWith(h, def, convs, attributeValue) ==
    LET down == SelectSeq(convs, LAMBDA c : c.dir = "downcast")
    IN  IF down = <<>> THEN <<>>
        ELSE IF down[1].kind = "anyValue"
             THEN IF ~Truthy(attributeValue) THEN <<>>
                  ELSE <<Element(STR_span, {},
                                 ParseStyleAttribute(STR_fontStyleColon \o String(attributeValue)),
                                 <<>>)>>
             ELSE IF String(attributeValue) \in DOMAIN def.view
                     /\ def.view[String(attributeValue)].t = "object"
                  THEN <<ElementOfView(h, def.view[String(attributeValue)])>>
                  ELSE <<>>

\* The editor loads the plugin: FontStyleEditing.init().
EditingInit ==
    /\ status = "constructed"
    /\ LET i == init(heap, config)
       IN  /\ heap' = i.h
           /\ status' = IF i.e = NoError THEN "ready" ELSE "failed"
           /\ error' = [e |-> i.e, d |-> i.d]
           /\ definition' = i.definition
           /\ converters' = i.converters
    /\ UNCHANGED <<config, last, calls, mutated, commandVars>>

SeqToSet(s) == { s[i] : i \in 1..Len(s) }

\* Text with an attribute value is rendered (editing view, getData()).
Downcast ==
    /\ status = "ready"
    /\ \E attributeValue \in SeqToSet(definition.values) \cup ModelSamples :
          last' = [op |-> "downcast", model |-> attributeValue,
                   view |-> DowncastWith(heap, definition, converters, attributeValue),
                   out |-> <<>>]
    /\ UNCHANGED <<heap, config, status, error, definition, converters, calls, mutated, commandVars>>

UpcastFrom(elements) ==
    /\ status = "ready"
    /\ \E el \in elements :
          last' = [op |-> "upcast", model |-> Undef, view |-> <<el>>,
                   out |-> UpcastWith(heap, converters, el)]
    /\ UNCHANGED <<heap, config, status, error, definition, converters, calls, mutated, commandVars>>

\* Markup from outside is pasted or set as data.
Upcast == UpcastFrom(ViewSamples)

\* The markup just rendered is loaded back (setData( getData() )).
Load ==
    /\ status = "ready"
    /\ last.op = "downcast"
    /\ last.view # <<>>
    /\ last' = [op |-> "load", model |-> last.model, view |-> last.view,
                out |-> UpcastWith(heap, converters, last.view[1])]
    /\ UNCHANGED <<heap, config, status, error, definition, converters, calls, mutated, commandVars>>

Next == EditingInit \/ Downcast \/ Upcast \/ Load

Spec == Init /\ [][Next]_vars

\* Legacy level texts: the strings matching /^[+-]?\d{1,3}$/ over these digits.
LegacySigns == {<<>>, <<"+">>, <<"-">>}
LegacyDigits == {"0", "1", "2", "4", "5", "9"}
LegacyLevels ==
    { sg \o ds : sg \in LegacySigns, ds \in UNION { [1..n -> LegacyDigits] : n \in 1..3 } }
LegacyElements == { Element(STR_font, {}, <<>>, <<level>>) : level \in LegacyLevels }

InitLegacy == InitWith({DefaultOptions, NumericalOptions}, BOOLEAN)

UpcastLegacy == UpcastFrom(LegacyElements)

NextLegacy == EditingInit \/ UpcastLegacy

SpecLegacy == InitLegacy /\ [][NextLegacy]_vars

\* ------------------------------------------------------------------------
\* fontstyle/fontstylecommand and fontstyle/fontstyleui
\* ------------------------------------------------------------------------
FONT_STYLE == <<"f", "o", "n", "t", "S", "t", "y", "l", "e">>
STR_itemClass == <<"c", "k", "-", "f", "o", "n", "t", "s", "t", "y", "l", "e",
                   "-", "o", "p", "t", "i", "o", "n">>

\* FontCommand.execute( { value } ) on the selection: with a value the
\* attribute is set to it, with no value the attribute is removed.
execute(value) == IF value.t = "undefined" THEN <<>> ELSE <<value>>

\* editor.t( text ): the text itself in the source language, a different
\* text in any other one.
Locales == {"en", "pl"}
t(locale, text) == IF locale = "en" THEN text ELSE <<"~">> \o text

\* localizedTitles[ key ]; the table is an object literal and inherits the
\* properties of Object.prototype.
LocalizedNames == {STR_Default, STR_Tiny, STR_Small, STR_Big, STR_Huge}
localizedTitles(locale, key) ==
    IF String(key) \in LocalizedNames THEN Str(t(locale, String(key)))
    ELSE IF String(key) \in ObjectPrototypeKeys THEN Fun(String(key))
    ELSE Undef

\* The callback of options.map(): the option itself, or a clone of it with
\* the localized title.
LocalizedOption(h, option, title) ==
    IF Truthy(title) /\ title # Get(h, option, "title")
    THEN New(h, ("title" :> title) @@ h[option.v])
    ELSE Ret(h, option)

RECURSIVE LocalizeOptions(_, _, _, _)
LocalizeRest(locale, todo, done, o) ==
    LocalizeOptions(o.h, locale, todo, Append(done, o.r))

LocalizeOptions(h, locale, todo, done) ==
    IF todo = <<>> THEN Ret(h, done)
    ELSE LocalizeRest(locale, Tail(todo), done,
                      LocalizedOption(h, Head(todo),
                                      localizedTitles(locale, Get(h, Head(todo), "title"))))

\* _getLocalizedOptions() once normalizeOptions() has returned or thrown.
LocalizedOf(locale, normalized) ==
    IF normalized.e # NoError THEN normalized
    ELSE LocalizeOptions(normalized.h, locale, normalized.r, <<>>)

_getLocalizedOptions(h, cfg, locale) ==
    LocalizedOf(locale, normalizeOptions(h, cfg.options))

\* The list item of an option with the title as the command parameter.
ListItem_ParamIsTitle(h, option) ==
    LET view == Get(h, option, "view")
        styles == Get(h, view, "styles")
        classes == Get(h, view, "classes")
    IN  [commandName |-> FONT_STYLE,
         commandParam |-> Get(h, option, "title"),
         label |-> Get(h, option, "title"),
         class |-> IF Truthy(view) /\ Truthy(classes)
                   THEN STR_itemClass \o <<" ">> \o String(classes)
                   ELSE STR_itemClass,
         labelStyle |-> IF Truthy(view) /\ Truthy(styles)
                        THEN <<STR_fontStyleColon
                               \o String(IF styles.t = "styles" THEN styles.v ELSE Undef)>>
                        ELSE <<>>]

\* The body of the loop of _prepareListOptions: the model of one list item.
ListItem(h, option) ==
    LET view == Get(h, option, "view")
        styles == Get(h, view, "styles")
        classes == Get(h, view, "classes")
    IN  [commandName |-> FONT_STYLE,
         commandParam |-> Get(h, option, "model"),
         label |-> Get(h, option, "title"),
         class |-> IF Truthy(view) /\ Truthy(classes)
                   THEN STR_itemClass \o <<" ">> \o String(classes)
                   ELSE STR_itemClass,
         labelStyle |-> IF Truthy(view) /\ Truthy(styles)
                        THEN <<STR_fontStyleColon
                               \o String(IF styles.t = "styles" THEN styles.v ELSE Undef)>>
                        ELSE <<>>]

_prepareListOptions(h, options) ==
    [i \in 1..Len(options) |-> ListItem(h, options[i])]

\* The dropdown the component factory creates from the localized options.
DropdownOf(localized) ==
    IF localized.e # NoError THEN NoDropdown
    ELSE [built |-> TRUE, options |-> localized.r,
          items |-> _prepareListOptions(localized.h, localized.r)]

\* FontStyleUI.init() and the creation of the dropdown; the command it
\* looks up is added at the end of FontStyleEditing.init().
UIInit ==
    /\ status = "ready"
    /\ ~dropdown.built
    /\ \E locale \in Locales :
          LET localized == _getLocalizedOptions(heap, config, locale)
          IN  /\ heap' = localized.h
              /\ dropdown' = DropdownOf(localized)
    /\ UNCHANGED <<config, status, error, definition, converters, last, calls, mutated,
                   attribute, executed>>

\* The values an integration executes the command with: the models of the
\* options, a length and no value.
CommandValues == SeqToSet(definition.values) \cup {Str(STR_13px), Undef}

\* editor.execute( 'fontStyle', { value } )
Execute ==
    /\ status = "ready"
    /\ \E value \in CommandValues :
          /\ attribute' = execute(value)
          /\ executed' = [by |-> "api", item |-> 0, value |-> value,
                          before |-> attribute]
    /\ UNCHANGED <<heap, config, status, error, definition, converters, last, calls,
                   mutated, dropdown>>

\* An item of the dropdown is selected: the listener of its 'execute' event
\* runs editor.execute( evt.source.commandName, { value: evt.source.commandParam } ).
SelectItem ==
    /\ dropdown.built
    /\ \E i \in 1..Len(dropdown.items) :
          /\ attribute' = execute(dropdown.items[i].commandParam)
          /\ executed' = [by |-> "item", item |-> i,
                          value |-> dropdown.items[i].commandParam,
                          before |-> attribute]
    /\ UNCHANGED <<heap, config, status, error, definition, converters, last, calls,
                   mutated, dropdown>>

NextCommand == EditingInit \/ UIInit \/ Execute \/ SelectItem

SpecCommand == Init /\ [][NextCommand]_vars

\* ------------------------------------------------------------------------
\* Properties of the editor
\* ------------------------------------------------------------------------
IsLegacyMarkup(el) ==
    el.name = STR_font /\ el.attributes # <<>> /\ compatStylePattern(el.attributes[1])

LegacyRegistered == \E i \in 1..Len(converters) : converters[i].kind = "legacy"

UpcastOfLegacy == last.op = "upcast" /\ IsLegacyMarkup(last.view[1])

ConfiguredModels == SeqToSet(definition.values)

MatchesSomeOption(el) ==
    \E k \in DOMAIN definition.view : MatchesView(heap, definition.view[k], el)

\* C1 as stated: after init, whatever supportAllValues is, legacy markup
\* (<font style="[+-]ddd">) is upcast to a fontStyle value.
C1_LegacyAlways ==
    (status = "ready" /\ UpcastOfLegacy) => last.out # <<>>

\* C1 as amended: init registers the legacy upcast rule exactly when
\* supportAllValues is true. After init with true, legacy markup is upcast to
\* a fontStyle value; after init with false no legacy rule is registered and
\* legacy markup gets a value only if the view of a configured option
\* matches it.
C1_LegacyOnlyWithSupportAllValues ==
    status = "ready" =>
        /\ LegacyRegistered <=> config.supportAllValues
        /\ (UpcastOfLegacy /\ config.supportAllValues) => last.out # <<>>
        /\ (UpcastOfLegacy /\ ~config.supportAllValues /\ ~MatchesSomeOption(last.view[1]))
              => last.out = <<>>

C1_Witness ==
    /\ status = "ready"
    /\ config.supportAllValues
    /\ last.op = "upcast"
    /\ last.view = <<Element(STR_font, {}, <<>>, <<STR_2>>)>>
    /\ last.out = <<Str(<<"s", "m", "a", "l", "l">>)>>

\* The models of the definition that are neither a length nor a percentage.
OffendingIndexes ==
    { i \in 1..Len(definition.values) :
        /\ ~isLength(String(definition.values[i]))
        /\ ~isPercentage(String(definition.values[i])) }

\* C2: init with supportAllValues = true fails with the named-presets error
\* whenever some normalized option with a defined model has a model that is
\* neither a length nor a percentage, and the payload lists exactly those
\* models.
C2_NamedPresetsRejected ==
    (status # "constructed" /\ config.supportAllValues /\ OffendingIndexes # {}) =>
        /\ status = "failed"
        /\ error.e = InvalidUseOfNamedPresets
        /\ Len(error.d) = Cardinality(OffendingIndexes)
        /\ SeqToSet(error.d) = { definition.values[i] : i \in OffendingIndexes }
        /\ converters = <<>>

C2_Witness ==
    /\ status = "failed"
    /\ config.supportAllValues
    /\ error.e = InvalidUseOfNamedPresets
    /\ error.d = <<Str(STR_small)>>
    /\ Len(definition.values) = 2

\* An option list made only of numeric entries and "default".
NumericEntry(x) == x.t \in {"number", "string"} /\ parseFloat(x).v.k = "fin"
OnlyNumericAndDefault ==
    \A i \in 1..Len(config.options) :
        config.options[i] = Str(STR_default) \/ NumericEntry(config.options[i])

\* C3: with supportAllValues = true and only numeric entries and "default",
\* init succeeds, and upcasting a span with any inline font-style value gives
\* exactly that raw value, configured or not.
C3_AnyValueAccepted ==
    (status # "constructed" /\ config.supportAllValues /\ OnlyNumericAndDefault) =>
        /\ status = "ready"
        /\ error.e = NoError
        /\ (last.op = "upcast" /\ last.view[1].name = STR_span /\ last.view[1].styles # <<>>)
              => last.out = <<Str(last.view[1].styles[1])>>

C3_Witness ==
    /\ status = "ready"
    /\ config.supportAllValues
    /\ config.options = <<Num(9), Num(10), Num(11), Str(STR_default), Num(14)>>
    /\ last.op = "upcast"
    /\ last.view = <<Element(STR_span, {}, <<STR_13px>>, <<>>)>>
    /\ last.out = <<Str(STR_13px)>>
    /\ Str(STR_13px) \notin ConfiguredModels

\* C4: with supportAllValues = false, upcasting only ever produces the model
\* of a configured normalized option, and markup matching no configured
\* option's view gets no fontStyle attribute.
C4_StrictUpcastOnlyConfigured ==
    (status = "ready" /\ ~config.supportAllValues /\ last.op \in {"upcast", "load"}) =>
        /\ last.out = <<>> \/ last.out[1] \in ConfiguredModels
        /\ ~MatchesSomeOption(last.view[1]) => last.out = <<>>

C4_Witness ==
    /\ status = "ready"
    /\ ~config.supportAllValues
    /\ Str(STR_12px) \in ConfiguredModels
    /\ last.op = "upcast"
    /\ last.view = <<Element(STR_span, {}, <<STR_13px>>, <<>>)>>
    /\ last.out = <<>>

\* The level of a legacy text, computed from its digits.
LevelDigits(level) == IF Head(level) \in {"+", "-"} THEN Tail(level) ELSE level
LevelNumber(level) ==
    LET ds == LevelDigits(level)
        n == CASE Len(ds) = 1 -> DigitVal[ds[1]]
               [] Len(ds) = 2 -> 10 * DigitVal[ds[1]] + DigitVal[ds[2]]
               [] Len(ds) = 3 -> 100 * DigitVal[ds[1]] + 10 * DigitVal[ds[2]] + DigitVal[ds[3]]
    IN  IF Head(level) = "-" THEN -n ELSE n
LevelIndex(level) ==
    LET L == IF Head(level) \in {"+", "-"} THEN 3 + LevelNumber(level) ELSE LevelNumber(level)
    IN  IF L < 0 THEN 0 ELSE IF L > 7 THEN 7 ELSE L

\* C5: for every level text with an optional sign and 1 to 3 digits the
\* legacy decoder returns the keyword at index clamp(L, 0, 7) of the 8-entry
\* table, L = 3 + n for a signed text and n otherwise.
C5_LegacyClamp ==
    /\ Len(styleFontStyle) = 8
    /\ (status = "ready" /\ config.supportAllValues /\ UpcastOfLegacy) =>
            last.out = <<Str(styleFontStyle[LevelIndex(last.view[1].attributes[1]) + 1])>>

C5_Witness ==
    /\ status = "ready"
    /\ config.supportAllValues
    /\ last.op = "upcast"
    /\ last.view = <<Element(STR_font, {}, <<>>, <<STR_minus999>>)>>
    /\ last.out = <<Str(<<"x", "-", "s", "m", "a", "l", "l">>)>>

\* A configured model value that was rendered and loaded back.
LoadedConfigured == last.op = "load" /\ last.model \in ConfiguredModels

\* The rendered markup matches the view of an option with another model.
AmbiguousMarkup ==
    \E k \in DOMAIN definition.view :
        k # String(last.model) /\ MatchesView(heap, definition.view[k], last.view[1])

\* C8 as stated: in every mode, downcasting the model of a normalized option
\* and upcasting the markup gives the same model back.
C8_RoundTripAlways ==
    (status = "ready" /\ LoadedConfigured) => last.out = <<last.model>>

\* C8 as amended: the round trip gives the same model back in the any-value
\* mode, and in the strict mode for every option whose markup matches the
\* view of no configured option with a different model.
C8_RoundTripUnambiguous ==
    (status = "ready" /\ LoadedConfigured /\ (config.supportAllValues \/ ~AmbiguousMarkup))
        => last.out = <<last.model>>

C8_Witness ==
    /\ status = "ready"
    /\ config.supportAllValues
    /\ last.op = "load"
    /\ last.model = Str(<<"9", "p", "x">>)
    /\ last.view = <<Element(STR_span, {}, <<<<"9", "p", "x">>>>, <<>>)>>
    /\ last.out = <<Str(<<"9", "p", "x">>)>>

\* ------------------------------------------------------------------------
\* Properties of the normalizer
\* ------------------------------------------------------------------------
SuccessfulCalls == { i \in 1..Len(calls) : calls[i].e = NoError }

\* What the item is, in the heap the call started with.
ModelOfItem(h, item) == IF item.t = "object" THEN Get(h, item, "model") ELSE item
IsPresetItem(h, item) ==
    /\ ~isFullItemDefinition(h, item)
    /\ String(item) \in PresetNames \/ String(Get(h, item, "model")) \in PresetNames
IsPlainItem(h, item) ==
    /\ ~isFullItemDefinition(h, item)
    /\ ~IsPresetItem(h, item)
    /\ item # Str(STR_default)
IsNumericLike(h, item) ==
    /\ IsPlainItem(h, item)
    /\ item.t = "object" => Truthy(Get(h, item, "model"))
    /\ ~IsNaN(parseFloat(ModelOfItem(h, item)))
PixelModel(h, item) == Str(String(parseFloat(ModelOfItem(h, item))) \o STR_px)

\* The option is rendered as <span style="font-style:model">.
HasInlineStyleView(h, option) ==
    LET view == Get(h, option, "view")
    IN  /\ view.t = "object"
        /\ Get(h, view, "name") = Str(STR_span)
        /\ Get(h, view, "styles") = Styles(Get(h, option, "model"))
        /\ Get(h, view, "classes") = Undef

\* C6 as stated: every numeric-like item that is no full definition, preset
\* or "default" (number, numeric string, partial object with a numeric-like
\* model) gives one option whose model is the parsed number followed by
\* "px" and whose view is the inline style font-style: model.
C6_PixelModelAlways ==
    \A i \in SuccessfulCalls : \A j \in 1..Len(calls[i].args) :
        IsNumericLike(calls[i].before, calls[i].args[j]) =>
            /\ calls[i].mapped[j].t = "object"
            /\ Get(calls[i].after, calls[i].mapped[j], "model")
                  = PixelModel(calls[i].before, calls[i].args[j])
            /\ HasInlineStyleView(calls[i].after, calls[i].mapped[j])

\* C6 as amended: such an item gives one option whose view is the inline
\* style font-style: model; the model is the parsed number followed by "px"
\* for a number or a string, and for a partial object it is the model the
\* object was given, unchanged (the object itself is returned).
C6_PixelModelOfShortcuts ==
    \A i \in SuccessfulCalls : \A j \in 1..Len(calls[i].args) :
        IsNumericLike(calls[i].before, calls[i].args[j]) =>
            /\ calls[i].mapped[j].t = "object"
            /\ HasInlineStyleView(calls[i].after, calls[i].mapped[j])
            /\ IF calls[i].args[j].t = "object"
               THEN /\ calls[i].mapped[j] = calls[i].args[j]
                    /\ Get(calls[i].after, calls[i].mapped[j], "model")
                          = Get(calls[i].before, calls[i].args[j], "model")
               ELSE Get(calls[i].after, calls[i].mapped[j], "model")
                          = PixelModel(calls[i].before, calls[i].args[j])

C6_Witness ==
    /\ Len(calls) = 1
    /\ calls[1].e = NoError
    /\ Len(calls[1].args) = 2
    /\ calls[1].args[1] = Str(STR_12_5)
    /\ Get(heap, calls[1].ret[1], "model") = Str(<<"1", "2", ".", "5", "p", "x">>)
    /\ calls[1].args[2].t = "object"
    /\ Get(calls[1].before, calls[1].args[2], "model") = Str(STR_12)
    /\ Get(heap, calls[1].ret[2], "model") = Str(STR_12)

\* An object that is no full definition, matches no preset and has no usable
\* model.
IsObjectWithoutModel(h, item) ==
    /\ item.t = "object"
    /\ IsPlainItem(h, item)
    /\ ~Truthy(Get(h, item, "model"))
\* Any other item that does not parse to a number.
IsUnparsable(h, item) ==
    /\ IsPlainItem(h, item)
    /\ ~IsObjectWithoutModel(h, item)
    /\ IsNaN(parseFloat(ModelOfItem(h, item)))

\* C7: normalize raises the invalid-definition error exactly when some item
\* is an object without a usable model; every other malformed item is
\* dropped without any error.
C7_OnlyMissingModelThrows ==
    \A i \in 1..Len(calls) :
        LET bad == \E j \in 1..Len(calls[i].args) :
                        IsObjectWithoutModel(calls[i].before, calls[i].args[j])
        IN  /\ calls[i].e = InvalidDefinition <=> bad
            /\ ~bad =>
                /\ calls[i].e = NoError
                /\ \A j \in 1..Len(calls[i].args) :
                      IsUnparsable(calls[i].before, calls[i].args[j])
                          => calls[i].mapped[j] = Undef

\* The options returned for named presets: <<call, index of the item>>.
PresetResults ==
    { p \in UNION { {<<i, j>> : j \in 1..Len(calls[i].args)} : i \in SuccessfulCalls } :
        IsPresetItem(calls[p[1]].before, calls[p[1]].args[p[2]]) }
ResultAt(p) == calls[p[1]].mapped[p[2]]
PresetNameAt(p) ==
    LET item == calls[p[1]].args[p[2]]
    IN  IF String(item) \in PresetNames THEN String(item)
        ELSE String(Get(calls[p[1]].before, item, "model"))

\* An option with the object of its view.
Content(h, option) ==
    [option |-> h[option.v],
     view |-> IF Get(h, option, "view").t = "object"
              THEN <<h[Get(h, option, "view").v]>> ELSE <<>>]

PresetContent(name) ==
    [option |-> [title |-> Str(PresetTitle(name)), model |-> Str(name)],
     view |-> <<[name |-> Str(STR_span), classes |-> Str(STR_textPrefix \o name),
                 priority |-> Num(7)]>>]
WithoutViewRef(c) ==
    [option |-> [title |-> c.option.title, model |-> c.option.model], view |-> c.view]

\* C9: options produced for a named preset are never shared. Mutating a
\* property of one returned option, or of its view, leaves every other
\* option returned for a preset unchanged, and a later normalize call
\* still returns the preset as the table has it and changes no earlier one.
C9_PresetsNotShared ==
    [][ /\ mutated' # mutated =>
            \A p \in PresetResults :
                p # mutated'[Len(mutated')]
                    => Content(heap', ResultAt(p)) = Content(heap, ResultAt(p))
        /\ calls' # calls =>
            /\ \A p \in PresetResults :
                  Content(heap', ResultAt(p)) = Content(heap, ResultAt(p))
            /\ \A p \in PresetResults' :
                  p[1] = Len(calls') =>
                      WithoutViewRef(Content(heap', ResultAt(p)')) = PresetContent(PresetNameAt(p)')
      ]_vars

C9_Witness ==
    /\ Len(calls) = 2
    /\ <<1, 1>> \in PresetResults
    /\ <<2, 1>> \in PresetResults
    /\ mutated = <<<<1, 1>>>>
    /\ Get(heap, ResultAt(<<1, 1>>), "title") = MutatedTitle
    /\ Get(heap, ResultAt(<<2, 1>>), "title") = Str(STR_Tiny)

\* C10: a list of full definitions only is returned as it is, same elements
\* in the same order, each unchanged except that a view without a priority
\* gets priority 7; a priority the definition sets is kept.
OnlyFullDefinitions(c) ==
    \A j \in 1..Len(c.args) : isFullItemDefinition(c.before, c.args[j])
C10_FullDefinitionsKept ==
    \A i \in 1..Len(calls) :
        OnlyFullDefinitions(calls[i]) =>
            /\ calls[i].e = NoError
            /\ calls[i].ret = calls[i].args
            /\ \A j \in 1..Len(calls[i].args) :
                LET before == Content(calls[i].before, calls[i].args[j])
                    after == Content(calls[i].after, calls[i].args[j])
                IN  /\ after.option = before.option
                    /\ after.view =
                          IF "priority" \in DOMAIN before.view[1] THEN before.view
                          ELSE <<before.view[1] @@ ("priority" :> Num(7))>>

\* ------------------------------------------------------------------------
\* Properties of the command and of its dropdown
\* ------------------------------------------------------------------------
\* The model of the i-th option normalizeOptions() yields for the
\* configuration.
OptionModelAt(i) ==
    LET n == normalizeOptions(heap, config.options)
    IN  IF n.e = NoError /\ i \in 1..Len(n.r) THEN <<Get(n.h, n.r[i], "model")>> ELSE <<>>

\* C11: after an execution of the fontStyle command the attribute of the
\* selection is the value of that (last) execution when it carried one and
\* is absent when it carried none; the selection of a dropdown item executes
\* the command with the model of the item's option, so that the item of an
\* option without a model ('default') removes the attribute.
C11_LastExecutionDecides ==
    /\ executed.by # "none" =>
          attribute = (IF executed.value = Undef THEN <<>> ELSE <<executed.value>>)
    /\ executed.by = "item" =>
          /\ OptionModelAt(executed.item) = <<executed.value>>
          /\ OptionModelAt(executed.item) = <<Undef>> => attribute = <<>>

\* The 'Default' item is selected on a selection that has the attribute.
C11_Witness ==
    /\ executed.by = "item"
    /\ dropdown.items[executed.item].label \in {Str(STR_Default), Str(t("pl", STR_Default))}
    /\ executed.value = Undef
    /\ executed.before # <<>>
    /\ attribute = <<>>

\* ------------------------------------------------------------------------
\* Properties of the shortcuts
\* ------------------------------------------------------------------------
IsFiniteNumber(x) == x.t = "number" /\ x.v.k = "fin"

\* A number, a string or a partial object with a model that is no preset and
\* not 'default'.
IsShortcut(h, item) ==
    /\ IsPlainItem(h, item)
    /\ item.t = "object" => Truthy(Get(h, item, "model"))

\* C12: an item (number, string or model of a partial object) whose numeric
\* prefix does not parse to a finite number - not a number or an infinity -
\* produces no option, so that every option generated from a shortcut has a
\* model built from a finite number.
C12_OnlyFiniteModels ==
    \A i \in SuccessfulCalls : \A j \in 1..Len(calls[i].args) :
        ( /\ IsShortcut(calls[i].before, calls[i].args[j])
          /\ ~IsFiniteNumber(parseFloat(ModelOfItem(calls[i].before, calls[i].args[j]))) )
        => calls[i].mapped[j] = Undef

====
